---- MODULE Spec2Model ----
(***************************************************************************)
(* The remote cluster Service of services/remotecluster/service.go: the    *)
(* lifecycle controller (Start, Shutdown, onClusterLeaderChange, resume,   *)
(* pause), the topic listener registry, and the send and ping pipelines    *)
(* that resume() starts.                                                   *)
(*                                                                         *)
(* Every call runs in a goroutine of its own.  Goroutines have no          *)
(* identity, so the ones inside the Service are kept as a bag of records   *)
(* [pc, op, arg, ret, d, seen]; a goroutine that returns leaves the bag.   *)
(* Every statement that touches shared state is one step.  The RWMutex     *)
(* `mux` is modelled by whether it is write-held and by its number of      *)
(* readers: the holder is the goroutine whose pc is inside the locked      *)
(* region.  The methods of the Response envelope are pure functions,       *)
(* applied to Response maps drawn from a bounded set.                      *)
(***************************************************************************)
EXTENDS Integers, Sequences, FiniteSets, Bags, TLC

\* ------------------------------------------------------------- bounds
\* calls of Start and Shutdown plus leadership changes of the cluster
MaxCalls == 3
\* send tasks submitted
MaxTasks == 1
\* calls of AddTopicListener, RemoveTopicListener and getTopicListeners
MaxRegistryCalls == 3

\* ------------------------------------------------- program constants
SendChanBuffer == 50
MaxConcurrentSends == 5
InvitationTopic == "invitation"
PingTopic == "ping"
\* the nil channel and the empty string
Nil == 0
NoListenerId == 0
\* ids that name no listener: what an unsynchronised read of
\* leaderListenerId can yield while Start writes it, and an id that
\* model.NewId never returned
TornId == -1
UnknownId == -2

Topics == {InvitationTopic, PingTopic}
\* the TopicListener functions callers register
Callbacks == {"cbA", "cbB"}

VARIABLES
    \* struct Service
    mux,               \* [w |-> write-locked, r |-> number of readers]
    active,
    done,              \* the current signal (a channel) or Nil
    leaderListenerId,
    topicListeners,    \* topic -> (id -> topicListenerEntry)
    send,              \* the buffered channel of send tasks
    \* the channels made by resume()
    closed,            \* channels that were closed
    nextChan,          \* the next channel make() returns
    \* the host server (ServerIface)
    isLeader,
    listeners,         \* leader-change listeners registered with the server
    nextLid,           \* the next id AddClusterLeaderChangedListener returns
    disablePing,
    nextId,            \* the next id model.NewId returns
    \* the goroutines inside the Service
    goroutines,
    \* the pipelines: per signal, the send workers and the ping loop
    workers, ping,
    \* history
    fault,             \* the panic the process died of, or "none"
    calls,             \* the Start/Shutdown calls, in the order they began
    overlapped,        \* a Start/Shutdown began while another was running
    startedAt,         \* the leadership changes before the latest Start
    events,            \* pipelines started and signals closed, in order
    flips,             \* leadership changes so far
    regCalls,          \* registry calls so far
    regHist,           \* ids AddTopicListener issued, removals asked for
    nextTask,
    pausedTasks,       \* tasks submitted while the service was paused
    executed,          \* task -> the signal of the worker that ran it
    \* a Response envelope and what the last method called on it returned
    response, returned

svcVars == <<mux, active, done, leaderListenerId, topicListeners, send>>
chanVars == <<closed, nextChan>>
serverVars == <<isLeader, listeners, nextLid, disablePing, nextId>>
pipeVars == <<workers, ping>>
histVars == <<fault, calls, overlapped, startedAt, events, flips, regCalls,
              regHist, nextTask, pausedTasks, executed>>
respVars == <<response, returned>>
vars == <<svcVars, chanVars, serverVars, goroutines, pipeVars, histVars,
          respVars>>

\* ------------------------------------------------------------ helpers
Count(s, x) == Cardinality({i \in 1..Len(s) : s[i] = x})
MapDelete(f, k) == [x \in DOMAIN f \ {k} |-> f[x]]
MapPut(f, k, v) == [x \in DOMAIN f \cup {k} |-> IF x = k THEN v ELSE f[x]]

Running == BagToSet(goroutines)
NoneRunning == goroutines = EmptyBag
Copies(g, n) == IF n = 0 THEN EmptyBag ELSE [x \in {g} |-> n]
\* d is the dispatch the goroutine runs (its topic, the slice it ranges
\* over and the index of the next listener) or NoDispatch, and seen what
\* a getTopicListeners it ran found in the registry
NoDispatch == [next |-> 0]
Goroutine(pc, op, arg) ==
    [pc |-> pc, op |-> op, arg |-> arg, ret |-> 0, d |-> NoDispatch,
     seen |-> EmptyBag]
At(g, l) == fault = "none" /\ g \in Running /\ g.pc = l
\* g goes on as h
Becomes(g, h) == goroutines' = (goroutines (-) Copies(g, 1)) (+) Copies(h, 1)
Goto(g, l) == Becomes(g, [g EXCEPT !.pc = l])
Return(g) == goroutines' = goroutines (-) Copies(g, 1)
Go(g) == goroutines' = goroutines (+) Copies(g, 1)

\* sync.RWMutex
Lock == mux.w = FALSE /\ mux.r = 0 /\ mux' = [mux EXCEPT !.w = TRUE]
Unlock == mux.w = TRUE /\ mux' = [mux EXCEPT !.w = FALSE]
RLock == mux.w = FALSE /\ mux' = [mux EXCEPT !.r = @ + 1]
RUnlock == mux.r > 0 /\ mux' = [mux EXCEPT !.r = @ - 1]

\* NewRemoteClusterService
InitService ==
    /\ mux = [w |-> FALSE, r |-> 0]
    /\ active = FALSE
    /\ done = Nil
    /\ leaderListenerId = NoListenerId
    /\ topicListeners = <<>>
    /\ send = <<>>
    /\ closed = {}
    /\ nextChan = 1
    /\ isLeader \in BOOLEAN
    /\ listeners = {}
    /\ nextLid = 1
    /\ disablePing \in BOOLEAN
    /\ nextId = 1
    /\ goroutines = EmptyBag
    /\ workers = <<>>
    /\ ping = <<>>
    /\ fault = "none"
    /\ calls = <<>>
    /\ overlapped = FALSE
    /\ startedAt = 0
    /\ events = <<>>
    /\ flips = 0
    /\ regCalls = 0
    /\ regHist = <<>>
    /\ nextTask = 1
    /\ pausedTasks = {}
    /\ executed = <<>>

\* a new Service, and an empty Response no method was called on
Init ==
    /\ InitService
    /\ response = <<>>
    /\ returned = [method |-> "none"]

\* ----------------------------------------------------------- Start
InLifecycleCall == \E g \in Running : g.op \in {"Start", "Shutdown"}
CallBudget == Len(calls) + flips < MaxCalls

CallStart ==
    /\ fault = "none" /\ CallBudget
    /\ Go(Goroutine("start_lock", "Start", 0))
    /\ calls' = Append(calls, "Start")
    /\ overlapped' = (overlapped \/ InLifecycleCall)
    /\ startedAt' = flips
    /\ UNCHANGED <<svcVars, chanVars, serverVars, pipeVars, fault, events,
                   flips, regCalls, regHist, respVars, nextTask, pausedTasks,
                   executed>>

\* rcs.mux.Lock()
StartLock(g) ==
    /\ At(g, "start_lock")
    /\ Lock
    /\ Goto(g, "start_register")
    /\ UNCHANGED <<active, done, leaderListenerId, topicListeners, send,
                   chanVars, serverVars, pipeVars, histVars, respVars>>

\* rcs.server.AddClusterLeaderChangedListener(rcs.onClusterLeaderChange)
StartRegister(g) ==
    /\ At(g, "start_register")
    /\ listeners' = listeners \cup {nextLid}
    /\ nextLid' = nextLid + 1
    /\ Becomes(g, [g EXCEPT !.pc = "start_assign", !.ret = nextLid])
    /\ UNCHANGED <<svcVars, chanVars, isLeader, disablePing, nextId, pipeVars,
                   histVars, respVars>>

\* rcs.leaderListenerId = <the id returned>
StartAssign(g) ==
    /\ At(g, "start_assign")
    /\ leaderListenerId' = g.ret
    /\ Becomes(g, [g EXCEPT !.pc = "start_unlock", !.ret = 0])
    /\ UNCHANGED <<mux, active, done, topicListeners, send, chanVars,
                   serverVars, pipeVars, histVars, respVars>>

\* a Start that returns without evaluating leadership
StartUnlockReturns(g) ==
    /\ At(g, "start_unlock")
    /\ Unlock
    /\ Return(g)
    /\ UNCHANGED <<active, done, leaderListenerId, topicListeners, send,
                   chanVars, serverVars, pipeVars, histVars, respVars>>

\* rcs.mux.Unlock(); rcs.onClusterLeaderChange()
StartUnlock(g) ==
    /\ At(g, "start_unlock")
    /\ Unlock
    /\ Goto(g, "olc")
    /\ UNCHANGED <<active, done, leaderListenerId, topicListeners, send,
                   chanVars, serverVars, pipeVars, histVars, respVars>>

\* ----------------------------------------------------------- Shutdown
CallShutdown ==
    /\ fault = "none" /\ CallBudget
    /\ Go(Goroutine("shutdown_read", "Shutdown", 0))
    /\ calls' = Append(calls, "Shutdown")
    /\ overlapped' = (overlapped \/ InLifecycleCall)
    /\ UNCHANGED <<startedAt, svcVars, chanVars, serverVars, pipeVars, fault,
                   events, flips, regCalls, regHist, respVars, nextTask,
                   pausedTasks, executed>>

\* the values the unlocked read of rcs.leaderListenerId can yield: the
\* stored id, or a torn string when Start is about to write the field
ReadLeaderListenerId ==
    {leaderListenerId} \cup
    IF \E h \in Running : h.pc = "start_assign" THEN {TornId} ELSE {}

\* the argument rcs.leaderListenerId, evaluated without the lock
ShutdownRead(g) ==
    /\ At(g, "shutdown_read")
    /\ \E id \in ReadLeaderListenerId :
           Becomes(g, [g EXCEPT !.pc = "shutdown_remove", !.arg = id])
    /\ UNCHANGED <<svcVars, chanVars, serverVars, pipeVars, histVars,
                   respVars>>

\* rcs.server.RemoveClusterLeaderChangedListener(id); rcs.pause()
ShutdownRemove(g) ==
    /\ At(g, "shutdown_remove")
    /\ listeners' = listeners \ {g.arg}
    /\ Becomes(g, [g EXCEPT !.pc = "pause_lock", !.arg = 0])
    /\ UNCHANGED <<svcVars, chanVars, isLeader, nextLid, disablePing, nextId,
                   pipeVars, histVars, respVars>>

\* ------------------------------------------------ onClusterLeaderChange
\* the cluster changes leader, and the host server starts a goroutine that
\* runs onClusterLeaderChange for each listener registered at that time
LeaderChange ==
    /\ fault = "none" /\ CallBudget
    /\ flips' = flips + 1
    /\ isLeader' = ~isLeader
    /\ goroutines' = goroutines (+)
           Copies(Goroutine("olc", "onClusterLeaderChange", 0),
                  Cardinality(listeners))
    /\ UNCHANGED <<svcVars, chanVars, listeners, nextLid, disablePing, nextId,
                   pipeVars, fault, calls, overlapped, startedAt, events,
                   regCalls, regHist, respVars, nextTask, pausedTasks,
                   executed>>

\* if rcs.server.IsLeader() { rcs.resume() } else { rcs.pause() }
OnClusterLeaderChange(g) ==
    /\ At(g, "olc")
    /\ Goto(g, IF isLeader THEN "resume_lock" ELSE "pause_lock")
    /\ UNCHANGED <<svcVars, chanVars, serverVars, pipeVars, histVars,
                   respVars>>

\* ------------------------------------------------------------ pipelines
\* pingLoop(done): one heartbeat loop bound to the signal it was given
pingLoop(c) == MapPut(ping, c, "waiting")

\* sendLoop(done): a pool of MaxConcurrentSends workers bound to the signal
sendLoop(c) ==
    MapPut(workers, c,
           [waiting |-> MaxConcurrentSends +
                        (IF c \in DOMAIN workers THEN workers[c].waiting ELSE 0),
            busy |-> IF c \in DOMAIN workers THEN workers[c].busy ELSE 0])

\* close(c): closing nil or a closed channel panics
Close(c) ==
    IF c = Nil
    THEN /\ fault' = "close of nil channel"
         /\ UNCHANGED <<closed, events>>
    ELSE IF c \in closed
    THEN /\ fault' = "close of closed channel"
         /\ UNCHANGED <<closed, events>>
    ELSE /\ closed' = closed \cup {c}
         /\ events' = Append(events, <<"close", c>>)
         /\ UNCHANGED fault

\* ------------------------------------------------------------- resume
\* rcs.mux.Lock(); defer rcs.mux.Unlock()
ResumeLock(g) ==
    /\ At(g, "resume_lock")
    /\ Lock
    /\ Goto(g, "resume_check")
    /\ UNCHANGED <<active, done, leaderListenerId, topicListeners, send,
                   chanVars, serverVars, pipeVars, histVars, respVars>>

\* resume without its guard: an active service is started again
ResumeCheckUnguarded(g) ==
    /\ At(g, "resume_check")
    /\ Goto(g, "resume_active")
    /\ UNCHANGED <<svcVars, chanVars, serverVars, pipeVars, histVars,
                   respVars>>

\* if rcs.active { return }
ResumeCheck(g) ==
    /\ At(g, "resume_check")
    /\ Goto(g, IF active THEN "resume_unlock" ELSE "resume_active")
    /\ UNCHANGED <<svcVars, chanVars, serverVars, pipeVars, histVars,
                   respVars>>

\* rcs.active = true
ResumeActive(g) ==
    /\ At(g, "resume_active")
    /\ active' = TRUE
    /\ Goto(g, "resume_make")
    /\ UNCHANGED <<mux, done, leaderListenerId, topicListeners, send,
                   chanVars, serverVars, pipeVars, histVars, respVars>>

\* rcs.done = make(chan struct{})
ResumeMake(g) ==
    /\ At(g, "resume_make")
    /\ done' = nextChan
    /\ nextChan' = nextChan + 1
    /\ Goto(g, "resume_ping")
    /\ UNCHANGED <<mux, active, leaderListenerId, topicListeners, send,
                   closed, serverVars, pipeVars, histVars, respVars>>

\* if !disablePing { rcs.pingLoop(rcs.done) }
ResumePing(g) ==
    /\ At(g, "resume_ping")
    /\ IF disablePing
       THEN UNCHANGED <<ping, events>>
       ELSE /\ ping' = pingLoop(done)
            /\ events' = Append(events, <<"pingLoop", done>>)
    /\ Goto(g, "resume_send")
    /\ UNCHANGED <<svcVars, chanVars, serverVars, workers, fault, calls,
                   overlapped, startedAt, flips, regCalls, regHist, respVars,
                   nextTask, pausedTasks, executed>>

\* rcs.sendLoop(rcs.done)
ResumeSend(g) ==
    /\ At(g, "resume_send")
    /\ workers' = sendLoop(done)
    /\ events' = Append(events, <<"sendLoop", done>>)
    /\ Goto(g, "resume_unlock")
    /\ UNCHANGED <<svcVars, chanVars, serverVars, ping, fault, calls,
                   overlapped, startedAt, flips, regCalls, regHist, respVars,
                   nextTask, pausedTasks, executed>>

\* the deferred rcs.mux.Unlock(); resume and its caller return
ResumeUnlock(g) ==
    /\ At(g, "resume_unlock")
    /\ Unlock
    /\ Return(g)
    /\ UNCHANGED <<active, done, leaderListenerId, topicListeners, send,
                   chanVars, serverVars, pipeVars, histVars, respVars>>

\* -------------------------------------------------------------- pause
\* rcs.mux.Lock(); defer rcs.mux.Unlock()
PauseLock(g) ==
    /\ At(g, "pause_lock")
    /\ Lock
    /\ Goto(g, "pause_check")
    /\ UNCHANGED <<active, done, leaderListenerId, topicListeners, send,
                   chanVars, serverVars, pipeVars, histVars, respVars>>

\* pause without its guard: an inactive service is paused again
PauseCheckUnguarded(g) ==
    /\ At(g, "pause_check")
    /\ Goto(g, "pause_active")
    /\ UNCHANGED <<svcVars, chanVars, serverVars, pipeVars, histVars,
                   respVars>>

\* pause with its guard inverted: it returns when the service is active
PauseCheckInverted(g) ==
    /\ At(g, "pause_check")
    /\ Goto(g, IF active THEN "pause_unlock" ELSE "pause_active")
    /\ UNCHANGED <<svcVars, chanVars, serverVars, pipeVars, histVars,
                   respVars>>

\* if !rcs.active { return }
PauseCheck(g) ==
    /\ At(g, "pause_check")
    /\ Goto(g, IF ~active THEN "pause_unlock" ELSE "pause_active")
    /\ UNCHANGED <<svcVars, chanVars, serverVars, pipeVars, histVars,
                   respVars>>

\* pause that leaves active set
PauseActiveForgets(g) ==
    /\ At(g, "pause_active")
    /\ Goto(g, "pause_close")
    /\ UNCHANGED <<svcVars, chanVars, serverVars, pipeVars, histVars,
                   respVars>>

\* rcs.active = false
PauseActive(g) ==
    /\ At(g, "pause_active")
    /\ active' = FALSE
    /\ Goto(g, "pause_close")
    /\ UNCHANGED <<mux, done, leaderListenerId, topicListeners, send,
                   chanVars, serverVars, pipeVars, histVars, respVars>>

\* a pause that does not close the signal
PauseCloseForgets(g) ==
    /\ At(g, "pause_close")
    /\ Goto(g, "pause_nil")
    /\ UNCHANGED <<svcVars, chanVars, serverVars, pipeVars, histVars,
                   respVars>>

\* close(rcs.done)
PauseClose(g) ==
    /\ At(g, "pause_close")
    /\ Close(done)
    /\ Goto(g, "pause_nil")
    /\ UNCHANGED <<svcVars, nextChan, serverVars, pipeVars, calls, overlapped,
                   startedAt, flips, regCalls, regHist, respVars, nextTask,
                   pausedTasks, executed>>

\* rcs.done = nil
PauseNil(g) ==
    /\ At(g, "pause_nil")
    /\ done' = Nil
    /\ Goto(g, "pause_unlock")
    /\ UNCHANGED <<mux, active, leaderListenerId, topicListeners, send,
                   chanVars, serverVars, pipeVars, histVars, respVars>>

\* the deferred rcs.mux.Unlock(); pause and its caller return
PauseUnlock(g) ==
    /\ At(g, "pause_unlock")
    /\ Unlock
    /\ Return(g)
    /\ UNCHANGED <<active, done, leaderListenerId, topicListeners, send,
                   chanVars, serverVars, pipeVars, histVars, respVars>>

\* ------------------------------------------- the send and ping pipelines
\* the goroutine holding mux is between the first and the last statement
\* of resume() or pause()
InCritical ==
    \E g \in Running :
        g.pc \in {"resume_check", "resume_active", "resume_make",
                  "resume_ping", "resume_send", "resume_unlock",
                  "pause_check", "pause_active", "pause_close", "pause_nil",
                  "pause_unlock"}

Signals == 1..(nextChan - 1)

\* SendMsg: the task is put on the send channel; a full channel blocks
Submit ==
    /\ fault = "none"
    /\ nextTask <= MaxTasks
    /\ Len(send) < SendChanBuffer
    /\ send' = Append(send, nextTask)
    /\ nextTask' = nextTask + 1
    /\ pausedTasks' = IF ~active /\ ~InCritical
                      THEN pausedTasks \cup {nextTask} ELSE pausedTasks
    /\ UNCHANGED <<mux, active, done, leaderListenerId, topicListeners,
                   chanVars, serverVars, goroutines, pipeVars, fault, calls,
                   overlapped, startedAt, events, flips, regCalls, regHist,
                   respVars, executed>>

\* a waiting worker whose signal has not fired takes the next task
WorkerDequeue(c) ==
    /\ fault = "none"
    /\ c \in DOMAIN workers /\ workers[c].waiting > 0
    /\ c \notin closed
    /\ send # <<>>
    /\ send' = Tail(send)
    /\ workers' = [workers EXCEPT ![c] = [waiting |-> @.waiting - 1,
                                          busy |-> @.busy + 1]]
    /\ executed' = MapPut(executed, Head(send), c)
    /\ UNCHANGED <<mux, active, done, leaderListenerId, topicListeners,
                   chanVars, serverVars, goroutines, ping, fault, calls,
                   overlapped, startedAt, events, flips, regCalls, regHist,
                   respVars, nextTask, pausedTasks>>

\* the HTTP call of a task ends (any outcome); the worker waits again
WorkerFinish(c) ==
    /\ fault = "none"
    /\ c \in DOMAIN workers /\ workers[c].busy > 0
    /\ workers' = [workers EXCEPT ![c] = [waiting |-> @.waiting + 1,
                                          busy |-> @.busy - 1]]
    /\ UNCHANGED <<svcVars, chanVars, serverVars, goroutines, ping, histVars,
                   respVars>>

\* a waiting worker observes its signal closed and exits
WorkerExit(c) ==
    /\ fault = "none"
    /\ c \in DOMAIN workers /\ workers[c].waiting > 0
    /\ c \in closed
    /\ workers' = [workers EXCEPT ![c].waiting = @ - 1]
    /\ UNCHANGED <<svcVars, chanVars, serverVars, goroutines, ping, histVars,
                   respVars>>

\* the ping timer fires: the loop pings every remote
PingTick(c) ==
    /\ fault = "none"
    /\ c \in DOMAIN ping /\ ping[c] = "waiting"
    /\ c \notin closed
    /\ ping' = [ping EXCEPT ![c] = "pinging"]
    /\ UNCHANGED <<svcVars, chanVars, serverVars, goroutines, workers,
                   histVars, respVars>>

\* the pings of one tick are over
PingDone(c) ==
    /\ fault = "none"
    /\ c \in DOMAIN ping /\ ping[c] = "pinging"
    /\ ping' = [ping EXCEPT ![c] = "waiting"]
    /\ UNCHANGED <<svcVars, chanVars, serverVars, goroutines, workers,
                   histVars, respVars>>

\* the waiting loop observes its signal closed and exits
PingExit(c) ==
    /\ fault = "none"
    /\ c \in DOMAIN ping /\ ping[c] = "waiting"
    /\ c \in closed
    /\ ping' = [ping EXCEPT ![c] = "exited"]
    /\ UNCHANGED <<svcVars, chanVars, serverVars, goroutines, workers,
                   histVars, respVars>>

\* ------------------------------------------------------- topic registry
CallAddTopicListener(topic, listener) ==
    /\ fault = "none" /\ regCalls < MaxRegistryCalls
    /\ regCalls' = regCalls + 1
    /\ Go(Goroutine("add_lock", "AddTopicListener", <<topic, listener>>))
    /\ UNCHANGED <<svcVars, chanVars, serverVars, pipeVars, fault, calls,
                   overlapped, startedAt, events, flips, regHist, nextTask,
                   pausedTasks, executed, respVars>>

\* rcs.mux.Lock(); defer rcs.mux.Unlock()
AddLock(g) ==
    /\ At(g, "add_lock")
    /\ Lock
    /\ Goto(g, "add_insert")
    /\ UNCHANGED <<active, done, leaderListenerId, topicListeners, send,
                   chanVars, serverVars, pipeVars, histVars, respVars>>

\* an insertion that makes the bucket of the topic anew on every call
AddToFreshBucket(topic, entry) ==
    MapPut(topicListeners, topic, MapPut(<<>>, entry.id, entry))

\* the registry once AddTopicListener stored entry: the bucket of the
\* topic is made when it is absent (or nil), then
\* rcs.topicListeners[topic][entry.id] = entry
AddTo(topic, entry) ==
    LET entries == IF topic \in DOMAIN topicListeners
                   THEN topicListeners[topic] ELSE <<>>
    IN MapPut(topicListeners, topic, MapPut(entries, entry.id, entry))

\* entry := topicListenerEntry{id: model.NewId(), listener: listener}; the
\* entry is stored; return entry.id
AddInsert(g) ==
    /\ At(g, "add_insert")
    /\ LET topic == g.arg[1]
           entry == [id |-> nextId, listener |-> g.arg[2]]
       IN /\ topicListeners' = AddTo(topic, entry)
          /\ Becomes(g, [g EXCEPT !.pc = "add_unlock", !.ret = entry.id])
          /\ regHist' = Append(regHist, <<"add", topic, entry.id>>)
    /\ nextId' = nextId + 1
    /\ UNCHANGED <<mux, active, done, leaderListenerId, send, chanVars,
                   isLeader, listeners, nextLid, disablePing, pipeVars, fault,
                   calls, overlapped, startedAt, events, flips, regCalls,
                   nextTask, pausedTasks, executed, respVars>>

\* a call made by a listener returns into the dispatch loop, any other
\* call to its caller
ReturnFromCall(g) ==
    IF g.d = NoDispatch
    THEN Return(g)
    ELSE Becomes(g, [g EXCEPT !.pc = "dispatch", !.op = "dispatch",
                              !.arg = g.d.topic, !.ret = 0])

AddUnlock(g) ==
    /\ At(g, "add_unlock")
    /\ Unlock
    /\ ReturnFromCall(g)
    /\ UNCHANGED <<active, done, leaderListenerId, topicListeners, send,
                   chanVars, serverVars, pipeVars, histVars, respVars>>

\* the ids a caller can pass: one AddTopicListener returned, or another
CallRemoveTopicListener(listenerId) ==
    /\ fault = "none" /\ regCalls < MaxRegistryCalls
    /\ listenerId \in 1..(nextId - 1) \cup {UnknownId}
    /\ regCalls' = regCalls + 1
    /\ regHist' = Append(regHist, <<"remove", listenerId>>)
    /\ Go(Goroutine("remove_lock", "RemoveTopicListener", listenerId))
    /\ UNCHANGED <<svcVars, chanVars, serverVars, pipeVars, fault, calls,
                   overlapped, startedAt, events, flips, nextTask,
                   pausedTasks, executed, respVars>>

\* rcs.mux.Lock(); defer rcs.mux.Unlock()
RemoveLock(g) ==
    /\ At(g, "remove_lock")
    /\ Lock
    /\ Goto(g, "remove_scan")
    /\ UNCHANGED <<active, done, leaderListenerId, topicListeners, send,
                   chanVars, serverVars, pipeVars, histVars, respVars>>

\* a removal that leaves the emptied bucket in the registry
RemoveFromKeepsBucket(topic, listenerId) ==
    [topicListeners EXCEPT ![topic] = MapDelete(@, listenerId)]

\* a removal that deletes the bucket that held the listener
RemoveFromDropsBucket(topic, listenerId) == MapDelete(topicListeners, topic)

\* the registry once the scan of RemoveTopicListener found listenerId in
\* the bucket of topic: the entry is deleted, and the bucket with it when
\* it became empty
RemoveFrom(topic, listenerId) ==
    LET entries == MapDelete(topicListeners[topic], listenerId)
    IN IF DOMAIN entries = {}
       THEN MapDelete(topicListeners, topic)
       ELSE [topicListeners EXCEPT ![topic] = entries]

\* a scan that deletes a bucket it visited when no bucket holds the id
RemoveScanDropsBucket(g) ==
    /\ At(g, "remove_scan")
    /\ LET found == {topic \in DOMAIN topicListeners :
                        g.arg \in DOMAIN topicListeners[topic]}
       IN IF found = {}
          THEN \E topic \in DOMAIN topicListeners \cup {""} :
                   topicListeners' = MapDelete(topicListeners, topic)
          ELSE \E topic \in found :
                   topicListeners' = RemoveFrom(topic, g.arg)
    /\ Goto(g, "remove_unlock")
    /\ UNCHANGED <<mux, active, done, leaderListenerId, send, chanVars,
                   serverVars, pipeVars, histVars, respVars>>

\* for topic, entries := range rcs.topicListeners { ...; break }: the map
\* is ranged over in any order and the scan stops at the first bucket that
\* holds the id
RemoveScan(g) ==
    /\ At(g, "remove_scan")
    /\ LET found == {topic \in DOMAIN topicListeners :
                        g.arg \in DOMAIN topicListeners[topic]}
       IN IF found = {}
          THEN UNCHANGED topicListeners
          ELSE \E topic \in found :
                   topicListeners' = RemoveFrom(topic, g.arg)
    /\ Goto(g, "remove_unlock")
    /\ UNCHANGED <<mux, active, done, leaderListenerId, send, chanVars,
                   serverVars, pipeVars, histVars, respVars>>

RemoveUnlock(g) ==
    /\ At(g, "remove_unlock")
    /\ Unlock
    /\ ReturnFromCall(g)
    /\ UNCHANGED <<active, done, leaderListenerId, topicListeners, send,
                   chanVars, serverVars, pipeVars, histVars, respVars>>

\* a message of the topic arrived: its dispatch asks for the listeners
CallGetTopicListeners(topic) ==
    /\ fault = "none" /\ regCalls < MaxRegistryCalls
    /\ regCalls' = regCalls + 1
    /\ Go(Goroutine("get_rlock", "getTopicListeners", topic))
    /\ UNCHANGED <<svcVars, chanVars, serverVars, pipeVars, fault, calls,
                   overlapped, startedAt, events, flips, regHist, nextTask,
                   pausedTasks, executed, respVars>>

\* rcs.mux.RLock(); defer rcs.mux.RUnlock()
GetRLock(g) ==
    /\ At(g, "get_rlock")
    /\ RLock
    /\ Goto(g, "get_copy")
    /\ UNCHANGED <<active, done, leaderListenerId, topicListeners, send,
                   chanVars, serverVars, pipeVars, histVars, respVars>>

\* the orders a range over a map with these keys can visit them in
Orders(S) ==
    {s \in [1..Cardinality(S) -> S] : \A x \in S : \E i \in DOMAIN s : s[i] = x}

\* a []TopicListener value: nil, a slice with a backing array of its own,
\* or a view of the bucket the registry holds
NilSlice == [kind |-> "nil"]
Slice(s) == [kind |-> "slice", val |-> s]
LiveView(topic) == [kind |-> "live", topic |-> topic]

\* the listeners of a bucket, as a bag
ListenersOf(entries) ==
    LET cbs == {entries[id].listener : id \in DOMAIN entries}
    IN [cb \in cbs |->
           Cardinality({id \in DOMAIN entries : entries[id].listener = cb})]
BucketListeners(topic) ==
    IF topic \in DOMAIN topicListeners
    THEN ListenersOf(topicListeners[topic]) ELSE EmptyBag

\* the listeners a holder of the slice finds in it now, as a bag
Elements(slice) ==
    IF slice.kind = "slice"
    THEN LET s == slice.val
         IN [cb \in {s[i] : i \in DOMAIN s} |->
                Cardinality({i \in DOMAIN s : s[i] = cb})]
    ELSE IF slice.kind = "live" THEN BucketListeners(slice.topic)
    ELSE EmptyBag
SliceLen(slice) == BagCardinality(Elements(slice))

\* a getTopicListeners that hands out the bucket itself
ListenersLive(topic) == {LiveView(topic)}

\* what getTopicListeners can return for the topic: nil when the topic has
\* no bucket, else a new slice of the listeners of the bucket, in the order
\* the range over the map visited them
ListenersCopy(topic) ==
    IF topic \notin DOMAIN topicListeners
    THEN {NilSlice}
    ELSE LET entries == topicListeners[topic]
         IN {Slice([i \in DOMAIN o |-> entries[o[i]].listener]) :
                o \in Orders(DOMAIN entries)}

\* the body of getTopicListeners, run with the read lock held; `seen`
\* records the listeners the topic had at this instant
GetCopy(g) ==
    /\ At(g, "get_copy")
    /\ \E slice \in ListenersCopy(g.arg) :
           Becomes(g, [g EXCEPT !.pc = "get_runlock", !.ret = slice,
                                !.seen = BucketListeners(g.arg)])
    /\ UNCHANGED <<svcVars, chanVars, serverVars, pipeVars, histVars,
                   respVars>>

\* a getTopicListeners that returns with the read lock still held
GetRUnlockKeepsLock(g) ==
    /\ At(g, "get_runlock")
    /\ Becomes(g, [g EXCEPT !.pc = "dispatch", !.op = "dispatch", !.ret = 0,
                   !.d = [topic |-> g.arg, slice |-> g.ret, next |-> 1]])
    /\ UNCHANGED <<svcVars, chanVars, serverVars, pipeVars, histVars,
                   respVars>>

\* the deferred rcs.mux.RUnlock(); the slice is returned to the dispatch
\* of the message, which ranges over it
GetRUnlock(g) ==
    /\ At(g, "get_runlock")
    /\ RUnlock
    /\ Becomes(g, [g EXCEPT !.pc = "dispatch", !.op = "dispatch", !.ret = 0,
                   !.d = [topic |-> g.arg, slice |-> g.ret, next |-> 1]])
    /\ UNCHANGED <<active, done, leaderListenerId, topicListeners, send,
                   chanVars, serverVars, pipeVars, histVars, respVars>>

\* ------------------------------------------------------------- dispatch
\* the dispatch of a received message calls the next listener of the slice
\* it was given, holding no lock; the listener returns, or calls
\* AddTopicListener or RemoveTopicListener first
Called(g) == [g EXCEPT !.d.next = @ + 1]

DispatchListener(g) ==
    /\ At(g, "dispatch")
    /\ g.d.next <= SliceLen(g.d.slice)
    /\ Becomes(g, Called(g))
    /\ UNCHANGED <<svcVars, chanVars, serverVars, pipeVars, histVars,
                   respVars>>

DispatchListenerAdds(g, topic, listener) ==
    /\ At(g, "dispatch")
    /\ g.d.next <= SliceLen(g.d.slice)
    /\ regCalls < MaxRegistryCalls
    /\ regCalls' = regCalls + 1
    /\ Becomes(g, [Called(g) EXCEPT !.pc = "add_lock",
                                    !.op = "AddTopicListener",
                                    !.arg = <<topic, listener>>])
    /\ UNCHANGED <<svcVars, chanVars, serverVars, pipeVars, fault, calls,
                   overlapped, startedAt, events, flips, regHist, nextTask,
                   pausedTasks, executed, respVars>>

DispatchListenerRemoves(g, listenerId) ==
    /\ At(g, "dispatch")
    /\ g.d.next <= SliceLen(g.d.slice)
    /\ regCalls < MaxRegistryCalls
    /\ listenerId \in 1..(nextId - 1) \cup {UnknownId}
    /\ regCalls' = regCalls + 1
    /\ regHist' = Append(regHist, <<"remove", listenerId>>)
    /\ Becomes(g, [Called(g) EXCEPT !.pc = "remove_lock",
                                    !.op = "RemoveTopicListener",
                                    !.arg = listenerId])
    /\ UNCHANGED <<svcVars, chanVars, serverVars, pipeVars, fault, calls,
                   overlapped, startedAt, events, flips, nextTask,
                   pausedTasks, executed, respVars>>

\* every listener of the slice was called
DispatchDone(g) ==
    /\ At(g, "dispatch")
    /\ g.d.next > SliceLen(g.d.slice)
    /\ Return(g)
    /\ UNCHANGED <<svcVars, chanVars, serverVars, pipeVars, histVars,
                   respVars>>

\* ------------------------------------------------------------ Response
\* model.STATUS, model.STATUS_OK and model.STATUS_FAIL
ResponseStatusKey == "status"
ResponseErrorKey == "err"
ResponseStatusOK == "OK"
ResponseStatusFail == "FAIL"

\* the interface{} values of a Response: strings, integers, booleans, nil,
\* and values with an Error() or String() method that returns v
StrVal(s) == [t |-> "string", v |-> s]
IntVal(n) == [t |-> "int", n |-> n]
BoolVal(b) == [t |-> "bool", b |-> b]
NilValue == [t |-> "nil"]
Stringer(s) == [t |-> "stringer", v |-> s]

Digit(n) == <<"0", "1", "2", "3", "4", "5", "6", "7", "8", "9">>[n + 1]
RECURSIVE Itoa(_)
Itoa(n) ==
    IF n < 0 THEN "-" \o Itoa(0 - n)
    ELSE IF n < 10 THEN Digit(n)
    ELSE Itoa(n \div 10) \o Digit(n % 10)

\* fmt.Sprintf("%v", val)
Sprint(val) ==
    CASE val.t = "string" -> val.v
      [] val.t = "int" -> Itoa(val.n)
      [] val.t = "bool" -> (IF val.b THEN "true" ELSE "false")
      [] val.t = "nil" -> "<nil>"
      [] val.t = "stringer" -> val.v

\* func (r Response) String(key string) string
String(r, key) == IF key \in DOMAIN r THEN Sprint(r[key]) ELSE ""

\* func (r Response) IsSuccess() bool
IsSuccess(r) == String(r, ResponseStatusKey) = ResponseStatusOK

\* an Error() that formats every status that is not the success sentinel
ErrorOfAnyFailure(r) ==
    LET status == String(r, ResponseStatusKey)
    IN IF status # ResponseStatusOK
       THEN status \o ": " \o String(r, ResponseErrorKey)
       ELSE ""

\* an Error() that formats status and message without the separator
ErrorUnseparated(r) ==
    LET status == String(r, ResponseStatusKey)
    IN IF status = ResponseStatusFail
       THEN status \o String(r, ResponseErrorKey)
       ELSE ""

\* func (r Response) Error() string, with fmt.Sprintf("%s: %s", ...)
Error(r) ==
    LET status == String(r, ResponseStatusKey)
    IN IF status = ResponseStatusFail
       THEN status \o ": " \o String(r, ResponseErrorKey)
       ELSE ""

\* the Response maps the methods are called on: any status and any error
\* value, each present or not
StatusValues ==
    {StrVal("OK"), StrVal("FAIL"), StrVal("ok"), StrVal(""),
     StrVal("FAILED"), IntVal(0), BoolVal(TRUE), NilValue, Stringer("OK"),
     Stringer("FAIL")}
ErrorValues ==
    {StrVal("x"), StrVal(""), StrVal("no such remote"), IntVal(-404),
     BoolVal(FALSE),
     NilValue, Stringer("timeout")}
Maps(keys, values) == UNION {[ks -> values] : ks \in SUBSET keys}
Merge(f, g) ==
    [k \in DOMAIN f \cup DOMAIN g |-> IF k \in DOMAIN f THEN f[k] ELSE g[k]]
Responses ==
    {Merge(s, e) : s \in Maps({ResponseStatusKey}, StatusValues),
                   e \in Maps({ResponseErrorKey}, ErrorValues)}

CallString(key) ==
    /\ returned' = [method |-> "String", key |-> key,
                    value |-> String(response, key)]
    /\ UNCHANGED <<svcVars, chanVars, serverVars, goroutines, pipeVars,
                   histVars, response>>

CallIsSuccess ==
    /\ returned' = [method |-> "IsSuccess", value |-> IsSuccess(response)]
    /\ UNCHANGED <<svcVars, chanVars, serverVars, goroutines, pipeVars,
                   histVars, response>>

CallError ==
    /\ returned' = [method |-> "Error", value |-> Error(response)]
    /\ UNCHANGED <<svcVars, chanVars, serverVars, goroutines, pipeVars,
                   histVars, response>>

\* ------------------------------------------------------ specifications
\* the steps of the goroutines inside Start, Shutdown and the
\* notifications of a leadership change
LifecycleSteps ==
    \/ \E g \in Running : StartLock(g)
    \/ \E g \in Running : StartRegister(g)
    \/ \E g \in Running : StartAssign(g)
    \/ \E g \in Running : StartUnlock(g)
    \/ \E g \in Running : ShutdownRead(g)
    \/ \E g \in Running : ShutdownRemove(g)
    \/ \E g \in Running : OnClusterLeaderChange(g)
    \/ \E g \in Running : ResumeLock(g)
    \/ \E g \in Running : ResumeCheck(g)
    \/ \E g \in Running : ResumeActive(g)
    \/ \E g \in Running : ResumeMake(g)
    \/ \E g \in Running : ResumePing(g)
    \/ \E g \in Running : ResumeSend(g)
    \/ \E g \in Running : ResumeUnlock(g)
    \/ \E g \in Running : PauseLock(g)
    \/ \E g \in Running : PauseCheck(g)
    \/ \E g \in Running : PauseActive(g)
    \/ \E g \in Running : PauseClose(g)
    \/ \E g \in Running : PauseNil(g)
    \/ \E g \in Running : PauseUnlock(g)

Lifecycle ==
    \/ CallStart
    \/ CallShutdown
    \/ LeaderChange
    \/ LifecycleSteps

Pipeline ==
    \/ Submit
    \/ \E c \in Signals : WorkerDequeue(c)
    \/ \E c \in Signals : WorkerFinish(c)
    \/ \E c \in Signals : WorkerExit(c)
    \/ \E c \in Signals : PingTick(c)
    \/ \E c \in Signals : PingDone(c)
    \/ \E c \in Signals : PingExit(c)

\* the steps of the goroutines inside the registry and the dispatch
RegistrySteps ==
    \/ \E g \in Running : AddLock(g)
    \/ \E g \in Running : AddInsert(g)
    \/ \E g \in Running : AddUnlock(g)
    \/ \E g \in Running : RemoveLock(g)
    \/ \E g \in Running : RemoveScan(g)
    \/ \E g \in Running : RemoveUnlock(g)
    \/ \E g \in Running : GetRLock(g)
    \/ \E g \in Running : GetCopy(g)
    \/ \E g \in Running : GetRUnlock(g)
    \/ \E g \in Running : DispatchListener(g)
    \/ \E g \in Running : DispatchDone(g)

Registry ==
    \/ \E topic \in Topics, listener \in Callbacks :
          CallAddTopicListener(topic, listener)
    \/ \E id \in 1..MaxRegistryCalls \cup {UnknownId} :
          CallRemoveTopicListener(id)
    \/ \E topic \in Topics : CallGetTopicListeners(topic)
    \/ \E g \in Running, topic \in Topics, listener \in Callbacks :
          DispatchListenerAdds(g, topic, listener)
    \/ \E g \in Running, id \in 1..MaxRegistryCalls \cup {UnknownId} :
          DispatchListenerRemoves(g, id)
    \/ RegistrySteps

Envelope ==
    \/ \E key \in {ResponseStatusKey, ResponseErrorKey, "id"} : CallString(key)
    \/ CallIsSuccess
    \/ CallError

\* the methods of Response, called on any Response map
InitResponse ==
    /\ InitService
    /\ response \in Responses
    /\ returned = [method |-> "none"]
SpecResponse == InitResponse /\ [][Envelope]_vars

Next == Lifecycle \/ Pipeline \/ Registry \/ Envelope

\* the whole Service
Spec == Init /\ [][Next]_vars
\* the lifecycle controller alone
SpecLifecycle == Init /\ [][Lifecycle]_vars
\* the lifecycle controller with the pipelines it starts
SpecPipeline == Init /\ [][Lifecycle \/ Pipeline]_vars
\* the topic registry alone
SpecRegistry == Init /\ [][Registry]_vars

\* the topic registry alone, its goroutines scheduled fairly: the Go
\* scheduler runs a goroutine that can take a step
SpecRegistryFair == SpecRegistry /\ WF_vars(RegistrySteps)

\* the lifecycle controller with its pipelines, every worker and loop
\* scheduled fairly: a worker or loop that can finish its task or its tick,
\* or that can observe its signal closed, eventually does
SpecPipelineFair ==
    /\ SpecPipeline
    /\ \A c \in 1..MaxCalls :
          /\ WF_vars(WorkerFinish(c)) /\ WF_vars(WorkerExit(c))
          /\ WF_vars(PingDone(c)) /\ WF_vars(PingExit(c))

\* the lifecycle controller of a Service together with the registrations
\* and removals of its topic registry, the calls of both counted against
\* one budget
ServiceBudget == Len(calls) + flips + regCalls < MaxCalls
Service ==
    \/ ServiceBudget /\ CallStart
    \/ ServiceBudget /\ CallShutdown
    \/ ServiceBudget /\ LeaderChange
    \/ ServiceBudget /\ \E topic \in Topics, listener \in Callbacks :
          CallAddTopicListener(topic, listener)
    \/ ServiceBudget /\ \E id \in 1..MaxRegistryCalls \cup {UnknownId} :
          CallRemoveTopicListener(id)
    \/ LifecycleSteps
    \/ \E g \in Running : AddLock(g)
    \/ \E g \in Running : AddInsert(g)
    \/ \E g \in Running : AddUnlock(g)
    \/ \E g \in Running : RemoveLock(g)
    \/ \E g \in Running : RemoveScan(g)
    \/ \E g \in Running : RemoveUnlock(g)
\* pings are disabled (disablePing, as the tests of the package set it):
\* the ping loop plays no part in what the two share
InitNoPing == Init /\ disablePing
SpecService == InitNoPing /\ [][Service]_vars

\* ============================================================== claims
LiveSignal == done # Nil /\ done \notin closed

\* C1: outside the critical sections of resume() and pause(), active is
\* true exactly when done is a signal that exists and was not closed.
C1_ActiveIffLiveSignal == ~InCritical => (active <=> LiveSignal)

\* C1 witness: a service resumed again after a pause, at rest.
C1_Witness == ~InCritical /\ active /\ LiveSignal /\ closed # {}

\* the pipeline generations that resume() has started
Generations == DOMAIN workers
Processing(c) ==
    \/ c \in DOMAIN workers /\ workers[c].busy > 0
    \/ c \in DOMAIN ping /\ ping[c] = "pinging"

\* C2: every send worker and ping loop that is processing belongs to the
\* generation the most recent resume() started.
C2_OneGenerationProcessing ==
    \A c \in Signals :
        Processing(c) => \A d \in Generations : d <= c

\* C3: once every onClusterLeaderChange invocation has returned, the
\* service is active only if the node is the leader.
C3_ActiveOnlyIfLeader == NoneRunning => (active => isLeader)

\* the last lifecycle call to begin was Shutdown, and it has returned
ShutdownReturned ==
    /\ calls # <<>> /\ calls[Len(calls)] = "Shutdown"
    /\ \A g \in Running : g.op # "Shutdown"

\* C4: once Shutdown has returned and every call in flight (at most one
\* Start, any notifications) has returned, the service is inactive, its
\* signal is gone and no leadership listener of it remains.
C4_ShutdownStops ==
    (ShutdownReturned /\ NoneRunning /\ Count(calls, "Start") <= 1)
        => (~active /\ ~LiveSignal /\ listeners = {})

\* C5: no signal is closed twice or closed when nil (no close panics), and
\* a pause() that finds the service inactive changes neither active, done
\* nor the set of closed signals, whatever runs concurrently.
C5_PauseInactiveNoOp ==
    [][/\ fault' = "none"
       /\ (~active /\
           \E g \in Running : g.pc \in {"pause_check", "pause_unlock"})
              => UNCHANGED <<active, done, closed>>]_vars

\* C5 witness: a pause() that follows an effective pause() is at its guard
\* with the service inactive.
C5_Witness ==
    ~active /\ closed # {} /\ \E g \in Running : g.pc = "pause_check"

IsStartOrStop(e) == e[1] \in {"sendLoop", "close"}
StartsAndStops == SelectSeq(events, IsStartOrStop)
\* a resume() has made its signal and not yet started the send pipeline
Starting == \E g \in Running : g.pc \in {"resume_ping", "resume_send"}

\* C6: each signal gets the ping and the send pipeline at most once, one
\* signal is made per pipeline start, and pipeline starts and stops
\* alternate strictly, beginning with a start, each stop closing the signal
\* of the start before it.
C6_ResumeStartsOnce ==
    /\ \A c \in Signals :
          /\ Count(events, <<"sendLoop", c>>) <= 1
          /\ Count(events, <<"pingLoop", c>>) <= 1
          /\ c \in DOMAIN workers =>
                 workers[c].waiting + workers[c].busy <= MaxConcurrentSends
    /\ nextChan - 1 = Cardinality(DOMAIN workers) + (IF Starting THEN 1 ELSE 0)
    /\ \A i \in DOMAIN StartsAndStops :
          IF i % 2 = 1
          THEN StartsAndStops[i][1] = "sendLoop"
          ELSE StartsAndStops[i] = <<"close", StartsAndStops[i - 1][2]>>

\* C6 witness: a second resume() in a row is at its guard on a service the
\* first one started.
C6_Witness ==
    /\ active /\ Len(StartsAndStops) = 1
    /\ \E g \in Running : g.pc = "resume_check"

\* C7: after Start(); Start(); Shutdown(), one after the other and with no
\* leadership change, no leadership listener of the service remains.
C7_DoubleStartShutdown ==
    (calls = <<"Start", "Start", "Shutdown">> /\ ~overlapped /\ flips = 0
     /\ NoneRunning)
        => listeners = {}

\* the goroutines that run Shutdown, wherever they are
ShutdownGoroutines ==
    [g \in {h \in Running : h.op = "Shutdown"} |-> goroutines[g]]

\* C8: every step of Shutdown() on an inactive service (never started, or
\* paused: active false and no signal) leaves active, done, the closed
\* signals and the topic registry unchanged, and raises no panic.
C8_ShutdownInactiveNoOp ==
    [][(~active /\ done = Nil /\ ShutdownGoroutines' # ShutdownGoroutines)
          => /\ UNCHANGED <<active, done, closed, topicListeners>>
             /\ fault' = "none"]_vars

\* C8 witness: Shutdown() of a service that was never started is about to
\* return from pause().
C8_Witness ==
    /\ calls = <<"Shutdown">> /\ ~active
    /\ \E g \in Running : g.op = "Shutdown" /\ g.pc = "pause_unlock"

\* C9: a task submitted while the service was paused is never executed,
\* also after a later resume().
C9_PausedTaskNeverExecuted ==
    \A t \in pausedTasks : t \notin DOMAIN executed

NoEmptyBucket ==
    \A topic \in DOMAIN topicListeners : DOMAIN topicListeners[topic] # {}
RegisteredIds(reg) == UNION {DOMAIN reg[topic] : topic \in DOMAIN reg}

\* C10: no topic of the registry has an empty bucket, and the removal of
\* the only listener of a topic removes the topic from the registry.
C10_NoEmptyBucket ==
    /\ NoEmptyBucket
    /\ [][/\ NoEmptyBucket'
          /\ \A topic \in DOMAIN topicListeners :
                (/\ Cardinality(DOMAIN topicListeners[topic]) = 1
                 /\ DOMAIN topicListeners[topic] \cap
                        RegisteredIds(topicListeners') = {})
                    => topic \notin DOMAIN topicListeners']_vars

\* C10 witness: the only listener ever registered was removed by its id
\* and the registry has no bucket.
C10_Witness ==
    /\ nextId = 2 /\ DOMAIN topicListeners = {}
    /\ \E g \in Running : g.pc = "remove_unlock" /\ g.arg = 1

\* C11: RemoveTopicListener of an id that no bucket holds (never issued, or
\* removed before) changes nothing in the topic registry and raises no
\* panic, from the scan to the release of the lock.
C11_RemoveUnknownNoOp ==
    [][(\E g \in Running :
            /\ g.pc \in {"remove_scan", "remove_unlock"}
            /\ g.arg \notin RegisteredIds(topicListeners))
          => /\ UNCHANGED topicListeners
             /\ fault' = "none"]_vars

\* C11 witness: the scan for an id that was never issued is over and the
\* registry holds a listener.
C11_Witness ==
    /\ DOMAIN topicListeners # {}
    /\ \E g \in Running : g.pc = "remove_unlock" /\ g.arg = UnknownId

NoRemovals == \A i \in DOMAIN regHist : regHist[i][1] = "add"
\* the AddTopicListener calls on the topic that have stored their entry
AddsOn(topic) ==
    {i \in DOMAIN regHist : regHist[i][1] = "add" /\ regHist[i][2] = topic}

\* C12: as long as no removal was asked for, the ids AddTopicListener
\* returned are pairwise distinct, the id a call returns is the one it
\* stored, and a getTopicListeners(topic) returns as many listeners as
\* AddTopicListener calls on the topic have stored an entry (nil when
\* none), however the calls interleave.
C12_AddsAllListed ==
    NoRemovals =>
        /\ \A i, j \in DOMAIN regHist :
              i # j => regHist[i][3] # regHist[j][3]
        /\ \A g \in Running :
              /\ g.pc = "add_unlock" => g.ret = regHist[Len(regHist)][3]
              /\ g.pc = "get_runlock" =>
                    /\ SliceLen(g.ret) = Cardinality(AddsOn(g.arg))
                    /\ (g.ret = NilSlice) = (AddsOn(g.arg) = {})

\* C12 witness: two AddTopicListener calls on one topic and no removal; a
\* getTopicListeners of the topic is about to return two listeners.
C12_Witness ==
    /\ NoRemovals
    /\ \E g \in Running :
          /\ g.pc = "get_runlock" /\ SliceLen(g.ret) = 2
          /\ Cardinality(AddsOn(g.arg)) = 2

\* C13: the slice getTopicListeners returns holds exactly the listeners the
\* topic had at the instant of the copy, with the read lock still held;
\* and whatever AddTopicListener and RemoveTopicListener do afterwards, the
\* dispatch that ranges over the slice keeps finding those listeners in it.
C13_Snapshot ==
    \A g \in Running :
        /\ g.pc = "get_runlock" =>
              /\ mux.r > 0
              /\ g.seen = BucketListeners(g.arg)
              /\ Elements(g.ret) = g.seen
        /\ g.d # NoDispatch => Elements(g.d.slice) = g.seen

\* C13 witness: a dispatch is ranging over a slice with a listener in it
\* while the topic no longer has the listeners the slice was copied from.
C13_Witness ==
    \E g \in Running :
        /\ g.pc = "dispatch" /\ g.d.next <= SliceLen(g.d.slice)
        /\ g.seen # BucketListeners(g.d.topic)

\* a listener called by a dispatch is inside AddTopicListener or
\* RemoveTopicListener
InListenerCall == \E g \in Running : g.d # NoDispatch /\ g.pc # "dispatch"
\* the goroutines between RLock and RUnlock, and between Lock and Unlock
Readers == {g \in Running : g.pc \in {"get_copy", "get_runlock"}}
Writers ==
    {g \in Running : g.pc \in {"add_insert", "add_unlock", "remove_scan",
                               "remove_unlock"}}
ReaderCount(S) == BagCardinality([g \in S |-> goroutines[g]])

\* C14: the lock is held only by goroutines inside AddTopicListener,
\* RemoveTopicListener or getTopicListeners, never by a dispatch that is
\* calling listeners; and under fair scheduling every call of
\* AddTopicListener or RemoveTopicListener that a listener makes returns to
\* the dispatch.
C14_ListenerCallCompletes ==
    /\ [](/\ mux.r = ReaderCount(Readers)
          /\ mux.w = (Writers # {}))
    /\ (InListenerCall ~> ~InListenerCall)

\* C14 witness: a call that a listener made from a dispatch holds the
\* write lock and is about to return.
C14_Witness ==
    \E g \in Running :
        g.d # NoDispatch /\ g.pc \in {"add_unlock", "remove_unlock"}

\* the statements about to write a field guarded by mux, and those about
\* to read one
WritesShared ==
    {"start_assign", "resume_active", "resume_make", "pause_active",
     "pause_nil", "add_insert", "remove_scan"}
ReadsShared ==
    {"shutdown_read", "resume_check", "resume_ping", "resume_send",
     "pause_check", "pause_close", "get_copy"}

\* C15: a goroutine about to write active, done, topicListeners or
\* leaderListenerId runs with mux write-locked, and one about to read any
\* of them with mux write- or read-locked.
C15_AccessUnderLock ==
    \A g \in Running :
        /\ g.pc \in WritesShared => mux.w
        /\ g.pc \in ReadsShared => (mux.w \/ mux.r > 0)

StatusMissing == ResponseStatusKey \notin DOMAIN response
\* IsSuccess() returned false, Error() the empty string
NotSuccessNoError ==
    /\ returned.method = "IsSuccess" => returned.value = FALSE
    /\ returned.method = "Error" => returned.value = ""

\* C16 as stated: when the status key is missing, or its value is neither
\* the string "OK" nor the string "FAIL", IsSuccess() returns false and
\* Error() the empty string.
C16_OtherStatusValue ==
    (\/ StatusMissing
     \/ response[ResponseStatusKey] \notin
            {StrVal(ResponseStatusOK), StrVal(ResponseStatusFail)})
        => NotSuccessNoError

\* C16 amended: when the status key is missing, or the text its value is
\* formatted to is neither "OK" nor "FAIL", IsSuccess() returns false and
\* Error() the empty string.
C16_OtherStatusText ==
    (\/ StatusMissing
     \/ Sprint(response[ResponseStatusKey]) \notin
            {ResponseStatusOK, ResponseStatusFail})
        => NotSuccessNoError

\* C16 witness: Error() was called on a Response with an error message and
\* a status that is no sentinel.
C16_Witness ==
    /\ returned.method = "Error"
    /\ ~StatusMissing /\ response[ResponseStatusKey] = StrVal("FAILED")
    /\ ResponseErrorKey \in DOMAIN response

\* the text of a value, by the kind of value
TextOf(val) ==
    CASE val = NilValue -> "<nil>"
      [] val = BoolVal(FALSE) -> "false"
      [] val = IntVal(-404) -> "-404"
      [] OTHER -> val.v

\* C17: on a Response with status "FAIL" and an error value x, Error()
\* returns "FAIL: " followed by the text of x and IsSuccess() returns
\* false; and no method of Response changes the map.
C17_FailFormatted ==
    /\ []((/\ ~StatusMissing
            /\ response[ResponseStatusKey] = StrVal("FAIL")
            /\ ResponseErrorKey \in DOMAIN response)
              => /\ returned.method = "Error" =>
                     returned.value =
                         "FAIL: " \o TextOf(response[ResponseErrorKey])
                 /\ returned.method = "IsSuccess" => returned.value = FALSE)
    /\ [][returned' # returned => response' = response]_vars

\* C17 witness: Error() returned "FAIL: x" for status "FAIL" and error "x".
C17_Witness ==
    /\ response = [k \in {ResponseStatusKey, ResponseErrorKey} |->
                      IF k = ResponseStatusKey THEN StrVal("FAIL")
                      ELSE StrVal("x")]
    /\ returned = [method |-> "Error", value |-> "FAIL: x"]

\* a Start() that has registered its leadership listener
Registered(g) == g.op = "Start" /\ g.pc \notin {"start_lock", "start_register"}
\* the notifications of a leadership change that have not returned
Notifications ==
    BagCardinality([g \in {h \in Running : h.op = "onClusterLeaderChange"}
                       |-> goroutines[g]])

\* C18: without a Shutdown, a Start() that is past its registration (so
\* also when it evaluates leadership) has its listener registered with the
\* server; once a Start() that ran alone and during which leadership did
\* not change has returned, the listener it stored is registered and the
\* service is active exactly when the node is the leader; and a leadership
\* change made while a Start() is past its registration starts a
\* notification of the service.
C18_StartRegistersFirst ==
    /\ [](/\ (Count(calls, "Shutdown") = 0 /\ \E g \in Running : Registered(g))
              => listeners # {}
          /\ (calls = <<"Start">> /\ NoneRunning /\ flips = startedAt)
              => /\ leaderListenerId \in listeners
                 /\ active <=> isLeader)
    /\ [][(/\ flips' # flips
           /\ Count(calls, "Shutdown") = 0
           /\ \E g \in Running : Registered(g))
             => Notifications' > Notifications]_vars

\* C18 witness: leadership changed before the only Start() began, the node
\* is the leader, and Start() has returned with the service active.
C18_Witness ==
    /\ calls = <<"Start">> /\ NoneRunning
    /\ startedAt > 0 /\ flips = startedAt
    /\ isLeader /\ active

\* every worker and loop bound to signal c has exited
Exited(c) ==
    /\ c \in DOMAIN workers => workers[c].waiting = 0 /\ workers[c].busy = 0
    /\ c \in DOMAIN ping => ping[c] = "exited"

\* C19: resume() starts its pipelines on the signal it has just made, which
\* no earlier pipeline was given and which is not closed; an effective
\* pause() closes the signal of the latest generation and no other, so that
\* a paused service has every signal it ever made closed; and under fair
\* scheduling every worker and loop of a generation whose signal was closed
\* eventually exits (again and again, all generations closed so far have
\* exited, and an exited worker or loop never comes back).
C19_GenerationBoundToSignal ==
    /\ [][/\ (done' # done /\ done' # Nil) =>
                 done' \notin DOMAIN workers \cup DOMAIN ping \cup closed
          /\ (workers' # workers \/ ping' # ping) =>
                /\ DOMAIN workers' \subseteq DOMAIN workers \cup {done}
                /\ DOMAIN ping' \subseteq DOMAIN ping \cup {done}
                /\ \A c \in DOMAIN workers :
                      workers'[c].waiting + workers'[c].busy
                          <= workers[c].waiting + workers[c].busy
          /\ closed' # closed =>
                /\ closed' = closed \cup {done}
                /\ done = nextChan - 1 /\ done \in DOMAIN workers]_vars
    /\ []((~active /\ ~InCritical) => Signals \subseteq closed)
    /\ []<>(\A c \in closed : Exited(c))

\* C19 witness: the workers of the first generation have all exited after
\* its signal was closed, and a second generation runs on a fresh signal.
C19_Witness ==
    /\ 1 \in closed /\ 1 \in DOMAIN workers /\ Exited(1)
    /\ active /\ done = 2 /\ 2 \in DOMAIN workers /\ ~Exited(2)

\* the entries of a registry with the topic they are stored under
Entries(reg) ==
    UNION {{<<topic, reg[topic][id]>> : id \in DOMAIN reg[topic]} :
              topic \in DOMAIN reg}
\* the goroutines inside AddTopicListener and RemoveTopicListener, and
\* those inside resume() and pause()
InRegistry(g) == g.op \in {"AddTopicListener", "RemoveTopicListener"}
RegistryGoroutines == [g \in {h \in Running : InRegistry(h)} |-> goroutines[g]]
LifecycleGoroutines ==
    [g \in {h \in Running : ~InRegistry(h)} |-> goroutines[g]]

\* C20: every entry of the registry is stored under its own id and no id
\* is in two buckets; a RemoveTopicListener(id) that changes the registry
\* removes the one entry of that id and leaves every other entry, of the
\* same and of other topics, as it was; no step of AddTopicListener or
\* RemoveTopicListener changes active or done; and no step of Start,
\* Shutdown, a leadership notification, resume() or pause() changes the
\* registry.
C20_RegistryFrame ==
    /\ [](\A topic \in DOMAIN topicListeners :
             \A id \in DOMAIN topicListeners[topic] :
                /\ topicListeners[topic][id].id = id
                /\ \A other \in DOMAIN topicListeners \ {topic} :
                      id \notin DOMAIN topicListeners[other])
    /\ [][/\ (topicListeners' # topicListeners
              /\ \E g \in Running : g.pc = "remove_scan") =>
                 \E g \in Running, e \in Entries(topicListeners) :
                    /\ g.pc = "remove_scan" /\ e[2].id = g.arg
                    /\ Entries(topicListeners') = Entries(topicListeners) \ {e}
          /\ RegistryGoroutines' # RegistryGoroutines =>
                 UNCHANGED <<active, done>>
          /\ LifecycleGoroutines' # LifecycleGoroutines =>
                 UNCHANGED topicListeners]_vars

\* C20 witness: of two listeners of one topic the first was removed by its
\* id, and the second is still in the bucket.
C20_Witness ==
    /\ \E g \in Running : g.pc = "remove_unlock" /\ g.arg = 1
    /\ \E topic \in DOMAIN topicListeners :
          /\ DOMAIN topicListeners[topic] = {2}
          /\ \E i \in DOMAIN regHist : regHist[i] = <<"add", topic, 1>>

====
